---- MODULE Spec2Model ----
(***************************************************************************)
(* Model of bot.py: a single-owner Telegram bot that forwards phrases to   *)
(* an LLM backend and walks the owner through a Training / EnglishOnly /   *)
(* Explain flow.  The session is the platform's per-chat dict              *)
(* context.chat_data of one chat; every handler is one action, because the *)
(* application (built with the default ApplicationBuilder) runs one update *)
(* to completion before the next.                                          *)
(*                                                                         *)
(* A text is a sequence of tokens.  A token is one character, or the whole *)
(* text of one JSON object (which begins with '{' and ends with '}', so no *)
(* strip ever cuts into it), or one fixed message of the bot.              *)
(***************************************************************************)
EXTENDS Integers, Sequences, FiniteSets, TLC

VARIABLES
  env,           \* the process environment (os.environ) at startup
  boot,          \* the outcome of the module-level configuration
  chat_data,     \* context.chat_data of the chat
  menus,         \* open mode menus in the chat
  update,        \* the last update handled
  outbox,        \* the API calls of the last turn, in order
  log,           \* the log lines of the last turn
  escaped,       \* whether an exception left the last handler
  llm_calls,     \* backend calls of the last turn
  trained,       \* the last Training generation whose Russian half was sent
  twins,         \* the same chat served by bots configured with other backends
  queue,         \* updates of the chat fetched and not yet processed
  tasks,         \* the handler coroutines started, in order
  reply_text,    \* a backend reply handed to the fence normalization
  cleaned_text   \* its normalized text

vars ==
  <<env, boot, chat_data, menus, update, outbox, log, escaped, llm_calls,
    trained, twins, queue, tasks, reply_text, cleaned_text>>

----------------------------------------------------------------------------
(* Bounds *)

\* open mode menus (messages still carrying the inline keyboard) in the chat
MaxMenus == 1

\* text messages the owner sends while the turns are followed step by step
MaxUpdates == 3

----------------------------------------------------------------------------
(* Configuration and constants of bot.py *)

OWNER_ID == 1001

Users == {OWNER_ID, OWNER_ID + 1}

MODE_TRAINING == "mode_training"

MODE_ENGLISH_ONLY == "mode_english_only"

MODE_EXPLAIN == "mode_explain"

Modes == {MODE_TRAINING, MODE_ENGLISH_ONLY, MODE_EXPLAIN}

STATE_AWAITING_PHRASE == 1

STATE_AWAITING_REVEAL == 2

----------------------------------------------------------------------------
(* Module-level configuration.  The environment is a dict from variable    *)
(* names to strings; a name outside its domain is unset.                   *)

EnvNames ==
  {"TELEGRAM_BOT_TOKEN", "TELEGRAM_OWNER_ID", "LLM_PROVIDER",
   "GEMINI_API_KEY", "GIGACHAT_CREDENTIALS", "DEEPSEEK_API_KEY"}

Providers == {"GEMINI", "GIGACHAT", "DEEPSEEK"}

\* the strings int() accepts, among those the environments here hold
IntegerStrings == {"1001", "-7"}

\* str.upper(), on the provider names the environments here hold
Upper(s) == IF s = "gemini" THEN "GEMINI" ELSE s

\* os.getenv(name) is None or the empty string
Falsy(e, name) == name \notin DOMAIN e \/ e[name] = ""

\* os.getenv("LLM_PROVIDER", "DEEPSEEK").upper()
SelectedProvider(e) ==
  Upper(IF "LLM_PROVIDER" \in DOMAIN e THEN e["LLM_PROVIDER"] ELSE "DEEPSEEK")

\* the credential variable the provider branch tests
CredentialOf(provider) ==
  IF provider = "GEMINI" THEN "GEMINI_API_KEY"
  ELSE IF provider = "GIGACHAT" THEN "GIGACHAT_CREDENTIALS"
  ELSE "DEEPSEEK_API_KEY"

ConfigError(provider) ==
  [phase |-> "config_error", LLM_PROVIDER |-> provider, handlers |-> {}]

Handlers == {"start", "mode_command", "button_callback", "handle_message"}

Serving(provider) ==
  [phase |-> "serving", LLM_PROVIDER |-> provider, handlers |-> Handlers]

\* a configuration that asks for the credential of every backend
StartupNeedsAllCredentials(e) ==
  IF "TELEGRAM_OWNER_ID" \notin DOMAIN e \/ e["TELEGRAM_OWNER_ID"] \notin IntegerStrings
  THEN ConfigError("")
  ELSE IF Falsy(e, "TELEGRAM_BOT_TOKEN")
  THEN ConfigError("")
  ELSE LET provider == SelectedProvider(e)
       IN  IF provider \notin Providers
           THEN ConfigError(provider)
           ELSE IF \E p \in Providers : Falsy(e, CredentialOf(p))
                THEN ConfigError(provider)
                ELSE Serving(provider)

\* the module-level code up to the handler registration: a ValueError ends
\* the process before __main__ registers a handler
Startup(e) ==
  IF "TELEGRAM_OWNER_ID" \notin DOMAIN e \/ e["TELEGRAM_OWNER_ID"] \notin IntegerStrings
  THEN ConfigError("")
  ELSE IF Falsy(e, "TELEGRAM_BOT_TOKEN")
  THEN ConfigError("")
  ELSE LET provider == SelectedProvider(e)
       IN  IF provider = "GEMINI"
           THEN IF Falsy(e, "GEMINI_API_KEY")
                THEN ConfigError(provider) ELSE Serving(provider)
           ELSE IF provider = "GIGACHAT"
           THEN IF Falsy(e, "GIGACHAT_CREDENTIALS")
                THEN ConfigError(provider) ELSE Serving(provider)
           ELSE IF provider = "DEEPSEEK"
           THEN IF Falsy(e, "DEEPSEEK_API_KEY")
                THEN ConfigError(provider) ELSE Serving(provider)
           ELSE ConfigError(provider)

----------------------------------------------------------------------------
(* Texts *)

Ch(c) == [k |-> "ch", c |-> c, obj |-> <<>>]

Obj(f) == [k |-> "obj", c |-> "", obj |-> f]

Lit(s) == << [k |-> "lit", c |-> s, obj |-> <<>>] >>

\* Python's None, a value distinct from every text
None == << [k |-> "none", c |-> "", obj |-> <<>>] >>

\* bool(v) of a value that is None or a str
Truthy(v) == v # None /\ v # <<>>

Whitespace == {" ", "\n"}

\* the name of the backtick character
Backtick == "backtick"

RECURSIVE LStrip(_, _)
\* str.lstrip(chars): drop leading characters that are in the set chars
LStrip(s, chars) ==
  IF s # <<>> /\ s[1].k = "ch" /\ s[1].c \in chars
  THEN LStrip(Tail(s), chars)
  ELSE s

RECURSIVE RStrip(_, _)
\* str.rstrip(chars): drop trailing characters that are in the set chars
RStrip(s, chars) ==
  IF s # <<>> /\ s[Len(s)].k = "ch" /\ s[Len(s)].c \in chars
  THEN RStrip(SubSeq(s, 1, Len(s) - 1), chars)
  ELSE s

\* str.strip()
Strip(s) == RStrip(LStrip(s, Whitespace), Whitespace)

\* a normalization without the last strip()
CleanedTextWithoutLastStrip(s) ==
  RStrip(LStrip(Strip(s), {Backtick, "j", "s", "o", "n"}), {Backtick})

\* response_text.strip().lstrip(FENCE + "json").rstrip(FENCE).strip(), where
\* FENCE is three backticks; both arguments are sets of characters to Python
CleanedText(s) ==
  Strip(RStrip(LStrip(Strip(s), {Backtick, "j", "s", "o", "n"}), {Backtick}))

NullText == <<Ch("n"), Ch("u"), Ch("l"), Ch("l")>>

NumberText == <<Ch("5")>>

\* json.loads: the parsed value, or a JSONDecodeError
JsonLoads(s) ==
  IF Len(s) = 1 /\ s[1].k = "obj"
  THEN [ok |-> TRUE, isobj |-> TRUE, obj |-> s[1].obj]
  ELSE IF s = NullText \/ s = NumberText
       THEN [ok |-> TRUE, isobj |-> FALSE, obj |-> <<>>]
       ELSE [ok |-> FALSE, isobj |-> FALSE, obj |-> <<>>]

----------------------------------------------------------------------------
(* Messages of the bot *)

\* the welcome text names the provider and the current mode
MsgWelcome(provider, mode) ==
  Lit("Welcome, owner! LLM: " \o provider \o ". Current mode: " \o mode)

MsgChooseMode == Lit("Please choose a mode:")

MsgModeSet(mode) == Lit("Mode set to: " \o mode)

MsgSendAny == Lit("Now, send any message to get the English version.")

MsgErrorStartOver == Lit("An error occurred. Let's start over.")

MsgStartOver == Lit("Let's start over. Send me a new phrase.")

MsgAnotherPhrase == Lit("Send me another phrase.")

MsgErrorTryAgain == Lit("An error occurred. Please try again.")

MsgAnotherExplain == Lit("Send me another word or phrase to explain.")

ErrorMessages == {MsgErrorStartOver, MsgErrorTryAgain}

----------------------------------------------------------------------------
(* The session dict *)

EmptyDict == [k \in {} |-> 0]

Get(d, k, default) == IF k \in DOMAIN d THEN d[k] ELSE default

Put(d, k, v) == [x \in (DOMAIN d) \cup {k} |-> IF x = k THEN v ELSE d[x]]

----------------------------------------------------------------------------
(* Platform calls.  net[i] tells whether the platform accepts the i-th API *)
(* call of the turn; a message whose text is empty or None is rejected in  *)
(* any case.                                                               *)

TextApis == {"send_message", "reply_text", "edit_message_text"}

Deliverable(api, text) == api \in TextApis => Truthy(text)

\* one API call and the platform's answer; err is "" when it is accepted
Call(api, text, md, accepted) ==
  LET ok == accepted /\ Deliverable(api, text)
  IN  [api |-> api, text |-> text, md |-> md, ok |-> ok,
       err |-> IF ok THEN "" ELSE "rejected"]

\* a send with parse_mode=MarkdownV2: the platform may also reject a text it
\* would otherwise deliver with BadRequest "Can't parse entities"
MarkdownCall(text, accepted, cantParse) ==
  LET c == Call("send_message", text, TRUE, accepted)
  IN  IF ~accepted /\ cantParse /\ Deliverable("send_message", text)
      THEN [c EXCEPT !.err = "cant_parse"]
      ELSE c

Typing == Lit("typing")

NoText == <<>>

Result(d, out, lg, esc, n) ==
  [data |-> d, out |-> out, log |-> lg, escaped |-> esc, calls |-> n]

----------------------------------------------------------------------------
(* Handlers.  Each takes the session dict d and the turn's inputs and      *)
(* returns the dict afterwards, the API calls attempted in order, the log  *)
(* lines, whether an exception left the handler, and the number of backend *)
(* calls.  gen is the backend's answer: it raised, or it returned a text.  *)

\* a clear() that is forgotten
ClearNothing(d) == d

\* context.chat_data.clear()
Clear(d) == EmptyDict

\* the except branch of handle_phrase_and_return_russian; d is the dict when
\* the exception was raised, tried the calls made until then
PhraseExcept(d, tried, net, n) ==
  LET e == Call("send_message", MsgErrorStartOver, FALSE, net[Len(tried) + 1])
  IN  Result(Clear(d), Append(tried, e), <<"error">>, ~e.ok, n)

\* handle_phrase_and_return_russian
HandlePhraseAndReturnRussian(d, gen, net) ==
  LET a1     == Call("send_chat_action", Typing, FALSE, net[1])
      data   == IF gen.returned /\ gen.text # None
                THEN JsonLoads(CleanedText(gen.text))
                ELSE [ok |-> FALSE, isobj |-> FALSE, obj |-> <<>>]
      hasEng == a1.ok /\ data.ok /\ data.isobj /\ "english" \in DOMAIN data.obj
      d1     == Put(d, "english_text", data.obj["english"])
      hasRus == hasEng /\ "russian" \in DOMAIN data.obj
      a2     == Call("send_message", data.obj["russian"], FALSE, net[2])
      d2     == Put(d1, "state", STATE_AWAITING_REVEAL)
      a3     == Call("send_message", MsgSendAny, FALSE, net[3])
      tried  == IF ~hasRus THEN <<a1>>
                ELSE IF ~a2.ok THEN <<a1, a2>>
                ELSE <<a1, a2, a3>>
      done   == hasRus /\ a2.ok /\ a3.ok
      dFail  == IF ~hasEng THEN d
                ELSE IF ~(hasRus /\ a2.ok) THEN d1
                ELSE d2
      n      == IF a1.ok THEN 1 ELSE 0
  IN  IF done
      THEN Result(d2, tried, <<>>, FALSE, n)
      ELSE PhraseExcept(dFail, tried, net, n)

\* a reveal step that stays in AwaitingReveal
HandleRevealKeepsState(d, net) ==
  LET english_text == Get(d, "english_text", None)
      a1 == Call("send_message", english_text, FALSE, net[1])
      a2 == Call("send_message", MsgStartOver, FALSE, net[2])
  IN  IF a1.ok
      THEN Result(d, <<a1, a2>>, <<>>, ~a2.ok, 0)
      ELSE Result(d, <<a1>>, <<>>, TRUE, 0)

\* handle_reveal_english
HandleRevealEnglish(d, net) ==
  LET english_text == Get(d, "english_text", None)
      a1 == Call("send_message", english_text, FALSE, net[1])
      d1 == Put(d, "state", STATE_AWAITING_PHRASE)
  IN  IF Truthy(english_text)
      THEN IF ~a1.ok
           THEN Result(d, <<a1>>, <<>>, TRUE, 0)
           ELSE LET a2 == Call("send_message", MsgStartOver, FALSE, net[2])
                IN  Result(d1, <<a1, a2>>, <<>>, ~a2.ok, 0)
      ELSE LET a2 == Call("send_message", MsgStartOver, FALSE, net[1])
           IN  Result(d1, <<a2>>, <<>>, ~a2.ok, 0)

\* an except branch that also resets the session, as the Training one does
TextModeExceptClears(d, tried, lg, net, n) ==
  LET e == Call("send_message", MsgErrorTryAgain, FALSE, net[Len(tried) + 1])
  IN  Result(EmptyDict, Append(tried, e), lg \o <<"error">>, ~e.ok, n)

\* the outer except branch of handle_english_only_generation and of
\* handle_explain_mode
TextModeExcept(d, tried, lg, net, n) ==
  LET e == Call("send_message", MsgErrorTryAgain, FALSE, net[Len(tried) + 1])
  IN  Result(d, Append(tried, e), lg \o <<"error">>, ~e.ok, n)

\* handle_english_only_generation
HandleEnglishOnlyGeneration(d, gen, net) ==
  LET a1    == Call("send_chat_action", Typing, FALSE, net[1])
      a2    == Call("send_message", gen.text, FALSE, net[2])
      a3    == Call("send_message", MsgAnotherPhrase, FALSE, net[3])
      tried == IF ~(a1.ok /\ gen.returned) THEN <<a1>>
               ELSE IF ~a2.ok THEN <<a1, a2>>
               ELSE <<a1, a2, a3>>
      done  == a1.ok /\ gen.returned /\ a2.ok /\ a3.ok
      n     == IF a1.ok THEN 1 ELSE 0
  IN  IF done
      THEN Result(d, tried, <<>>, FALSE, n)
      ELSE TextModeExcept(d, tried, <<>>, net, n)

\* an inner except branch that raises every BadRequest again
ResendsNever(err) == FALSE

\* the test of the inner except branch of handle_explain_mode: resend as
\* plain text, or raise again
ResendsAsPlainText(err) == err = "cant_parse"

\* handle_explain_mode; cantParse tells whether the platform's rejection of
\* the MarkdownV2 send is the BadRequest "Can't parse entities"
HandleExplainMode(d, gen, net, cantParse) ==
  LET a1       == Call("send_chat_action", Typing, FALSE, net[1])
      a2       == MarkdownCall(gen.text, net[2], cantParse)
      fallback == ~a2.ok /\ ResendsAsPlainText(a2.err)
      a2b      == Call("send_message", gen.text, FALSE, net[3])
      sentText == IF a2.ok THEN <<a1, a2>> ELSE <<a1, a2, a2b>>
      textOk   == a2.ok \/ (fallback /\ a2b.ok)
      a3       == Call("send_message", MsgAnotherExplain, FALSE, net[Len(sentText) + 1])
      tried    == IF ~(a1.ok /\ gen.returned) THEN <<a1>>
                  ELSE IF ~a2.ok /\ ~fallback THEN <<a1, a2>>
                  ELSE IF ~textOk THEN sentText
                  ELSE Append(sentText, a3)
      done     == a1.ok /\ gen.returned /\ textOk /\ a3.ok
      warn     == IF a1.ok /\ gen.returned /\ fallback THEN <<"warning">> ELSE <<>>
      n        == IF a1.ok THEN 1 ELSE 0
  IN  IF done
      THEN Result(d, tried, warn, FALSE, n)
      ELSE TextModeExcept(d, tried, warn, net, n)

\* a dispatch without the branch for Explain mode
DispatchWithoutExplain(d) ==
  LET mode  == Get(d, "mode", MODE_TRAINING)
      state == Get(d, "state", STATE_AWAITING_PHRASE)
  IN  IF mode = MODE_TRAINING
      THEN IF state = STATE_AWAITING_PHRASE
           THEN "handle_phrase_and_return_russian"
           ELSE IF state = STATE_AWAITING_REVEAL
                THEN "handle_reveal_english"
                ELSE "none"
      ELSE IF mode = MODE_ENGLISH_ONLY
           THEN "handle_english_only_generation"
           ELSE "none"

\* a dispatch that looks at the state only and takes every mode for Training
DispatchIgnoresMode(d) ==
  IF Get(d, "state", STATE_AWAITING_PHRASE) = STATE_AWAITING_PHRASE
  THEN "handle_phrase_and_return_russian"
  ELSE "handle_reveal_english"

\* the dispatch of handle_message: the handler it delegates to, if any
Dispatch(d) ==
  LET mode  == Get(d, "mode", MODE_TRAINING)
      state == Get(d, "state", STATE_AWAITING_PHRASE)
  IN  IF mode = MODE_TRAINING
      THEN IF state = STATE_AWAITING_PHRASE
           THEN "handle_phrase_and_return_russian"
           ELSE IF state = STATE_AWAITING_REVEAL
                THEN "handle_reveal_english"
                ELSE "none"
      ELSE IF mode = MODE_ENGLISH_ONLY
           THEN "handle_english_only_generation"
           ELSE IF mode = MODE_EXPLAIN
                THEN "handle_explain_mode"
                ELSE "none"

\* handle_message, inside the owner_only wrapper
HandleMessageBody(d, gen, net, cantParse) ==
  LET h == Dispatch(d)
  IN  IF h = "handle_phrase_and_return_russian"
      THEN HandlePhraseAndReturnRussian(d, gen, net)
      ELSE IF h = "handle_reveal_english"
      THEN HandleRevealEnglish(d, net)
      ELSE IF h = "handle_english_only_generation"
      THEN HandleEnglishOnlyGeneration(d, gen, net)
      ELSE IF h = "handle_explain_mode"
      THEN HandleExplainMode(d, gen, net, cantParse)
      ELSE Result(d, <<>>, <<>>, FALSE, 0)

\* a start that sets the state and keeps whatever else the session holds
StartKeepsSession(provider, d, net) ==
  LET d1 == IF "mode" \notin DOMAIN d THEN Put(d, "mode", MODE_TRAINING) ELSE d
      d2 == Put(d1, "state", STATE_AWAITING_PHRASE)
      a1 == Call("send_message", MsgWelcome(provider, d2["mode"]), FALSE, net[1])
  IN  Result(d2, <<a1>>, <<>>, ~a1.ok, 0)

\* start, inside the owner_only wrapper
StartBody(provider, d, net) ==
  LET d0 == Clear(d)
      d1 == IF "mode" \notin DOMAIN d0 THEN Put(d0, "mode", MODE_TRAINING) ELSE d0
      d2 == Put(d1, "state", STATE_AWAITING_PHRASE)
      a1 == Call("send_message", MsgWelcome(provider, d2["mode"]), FALSE, net[1])
  IN  Result(d2, <<a1>>, <<>>, ~a1.ok, 0)

\* mode_command, inside the owner_only wrapper
ModeCommandBody(d, net) ==
  LET a1 == Call("reply_text", MsgChooseMode, FALSE, net[1])
  IN  Result(d, <<a1>>, <<>>, ~a1.ok, 0)

\* a button_callback that sets the mode and forgets to reset the state
ButtonCallbackKeepsState(d, query_data, net) ==
  LET a1 == Call("answer", NoText, FALSE, net[1])
      d1 == Put(d, "mode", query_data)
      a2 == Call("edit_message_text", MsgModeSet(query_data), FALSE, net[2])
  IN  IF ~a1.ok
      THEN Result(d, <<a1>>, <<>>, TRUE, 0)
      ELSE Result(d1, <<a1, a2>>, <<>>, ~a2.ok, 0)

\* button_callback; query_data is the callback data of the pressed button
ButtonCallbackBody(d, query_data, net) ==
  LET a1 == Call("answer", NoText, FALSE, net[1])
      d1 == Put(d, "mode", query_data)
      d2 == Put(d1, "state", STATE_AWAITING_PHRASE)
      a2 == Call("edit_message_text", MsgModeSet(query_data), FALSE, net[2])
  IN  IF ~a1.ok
      THEN Result(d, <<a1>>, <<>>, TRUE, 0)
      ELSE Result(d2, <<a1, a2>>, <<>>, ~a2.ok, 0)

\* a handler registered without the owner_only decorator
OwnerOnlyMissing(user, d, r) == r

\* what the owner_only wrapper does for a user other than the owner
Denied(d) == Result(d, <<>>, <<"warning">>, FALSE, 0)

\* the owner_only decorator around a handler whose outcome is r
OwnerOnly(user, d, r) == IF user # OWNER_ID THEN Denied(d) ELSE r

----------------------------------------------------------------------------
(* Inputs *)

\* the most API calls one turn can make (handle_explain_mode: chat action,
\* MarkdownV2 send, plain resend, follow-up prompt, error message)
MaxApiCalls == 5

\* the platform's answers to a turn that makes at most k API calls
Nets(k) == {net \in [1..MaxApiCalls -> BOOLEAN] : \A i \in (k + 1)..MaxApiCalls : net[i]}

Phrases == {"break the ice"}

RussianText == Lit("russian text")

EnglishText1 == Lit("english text 1")

EnglishText2 == Lit("english text 2")

\* values of the reply's russian and english members: a string, the empty
\* string, or JSON null
RussianValues == {RussianText, <<>>, None}

EnglishValues == {EnglishText1, EnglishText2, <<>>, None}

AllKeys == {"phrase", "russian", "english"}

JsonObject(keys, ru, en) ==
  [k \in keys |-> IF k = "russian" THEN ru
                  ELSE IF k = "english" THEN en
                  ELSE Lit("phrase")]

\* replies with all three members, and replies that lack some
Objects ==
  {JsonObject(AllKeys, ru, en) : ru \in RussianValues, en \in EnglishValues}
    \cup {JsonObject(AllKeys \ {k}, RussianText, EnglishText1) : k \in AllKeys}
    \cup {JsonObject({}, RussianText, EnglishText1)}

Fence == <<Ch(Backtick), Ch(Backtick), Ch(Backtick)>>

JsonFenceOpen == Fence \o <<Ch("j"), Ch("s"), Ch("o"), Ch("n"), Ch("\n")>>

FenceClose == <<Ch("\n")>> \o Fence

\* the ways a backend wraps its JSON: bare, in a json fence, in a plain
\* fence, or after a line of prose
Wrappings(o) ==
  {<<Obj(o)>>,
   JsonFenceOpen \o <<Obj(o)>> \o FenceClose,
   <<Ch(" ")>> \o Fence \o <<Ch("\n"), Obj(o)>> \o FenceClose \o <<Ch("\n")>>,
   <<Ch("x"), Ch("\n"), Obj(o)>>}

\* the objects that also come wrapped
WrappedObjects ==
  {JsonObject({"phrase", "russian", "english"}, RussianText, EnglishText2),
   JsonObject({"phrase", "russian", "english"}, RussianText, <<>>)}

PlainText == <<Ch("x"), Ch(" "), Ch("x")>>

Replies ==
  {<<Obj(o)>> : o \in Objects}
    \cup UNION {Wrappings(o) : o \in WrappedObjects}
    \cup {NullText, NumberText, <<>>, None, PlainText}

NoGen == [called |-> FALSE, returned |-> FALSE, text |-> <<>>]

Raised == [called |-> TRUE, returned |-> FALSE, text |-> <<>>]

Returned(t) == [called |-> TRUE, returned |-> TRUE, text |-> t]

MsgNotConfigured == Lit("Error: LLM Provider not configured correctly.")

\* a generate_llm_response whose GEMINI and GIGACHAT branches are missing
GenerateOnlyDeepseek(provider, gen) ==
  IF ~gen.called \/ provider = "DEEPSEEK" THEN gen ELSE Returned(MsgNotConfigured)

\* generate_llm_response(system_prompt, user_message) when the backend of
\* the configured provider answers gen: each branch hands back the text of
\* the backend's answer, or lets its exception through
GenerateLlmResponse(provider, gen) ==
  IF ~gen.called \/ provider \in {"GEMINI", "GIGACHAT", "DEEPSEEK"}
  THEN gen
  ELSE Returned(MsgNotConfigured)

\* what a call of generate_llm_response can do: raise, or return a text.
\* The Training prompt asks for JSON, the other two prompts for a text.
Gens == {Raised} \cup {Returned(t) : t \in Replies}

TextReplies ==
  {PlainText, <<>>, None, <<Obj(JsonObject(AllKeys, RussianText, EnglishText1))>>}

TextGens == {Raised} \cup {Returned(t) : t \in TextReplies}

----------------------------------------------------------------------------
(* State machine *)

----------------------------------------------------------------------------
(* The last update and what the turn did, as the handlers saw it *)

Mode == Get(chat_data, "mode", MODE_TRAINING)

State == Get(chat_data, "state", STATE_AWAITING_PHRASE)

ModeBefore == Get(update.before, "mode", MODE_TRAINING)

StateBefore == Get(update.before, "state", STATE_AWAITING_PHRASE)

\* the texts of the messages the turn attempted to send or edit
SentTexts == {outbox[i].text : i \in {j \in 1..Len(outbox) : outbox[j].api \in TextApis}}

AllCallsAccepted == \A i \in 1..Len(outbox) : outbox[i].ok

OwnerTurn(handler) == update.handler = handler /\ update.user = OWNER_ID

StrangerTurn(handler) == update.handler = handler /\ update.user # OWNER_ID

Stash == Get(chat_data, "english_text", None)

StashBefore == Get(update.before, "english_text", None)

\* mode Training, state AwaitingPhrase, nothing stashed
IsDefaults(d) ==
  /\ Get(d, "mode", MODE_TRAINING) = MODE_TRAINING
  /\ Get(d, "state", STATE_AWAITING_PHRASE) = STATE_AWAITING_PHRASE
  /\ Get(d, "english_text", None) = None

LastCall == outbox[Len(outbox)]

\* the value json.loads gives for the backend's text of this turn
ReplyData ==
  IF update.gen.returned /\ update.gen.text # None
  THEN JsonLoads(CleanedText(update.gen.text))
  ELSE [ok |-> FALSE, isobj |-> FALSE, obj |-> <<>>]

\* the last turn was the owner's phrase in Training / AwaitingPhrase, the
\* backend returned a JSON object with phrase, russian and english, and the
\* platform accepted every call of the turn
RoundTripFirstHalf ==
  /\ OwnerTurn("handle_message")
  /\ ModeBefore = MODE_TRAINING
  /\ StateBefore = STATE_AWAITING_PHRASE
  /\ update.gen.returned
  /\ ReplyData.ok /\ ReplyData.isobj
  /\ DOMAIN ReplyData.obj = AllKeys
  /\ AllCallsAccepted

\* the record of an update: its handler, sender and argument, the session
\* before it, the backend's answer if the backend was called, and whether it
\* directly follows the first half of a round trip
Update(handler, user, arg, before, gen) ==
  [handler |-> handler, user |-> user, arg |-> arg, before |-> before,
   gen |-> gen, follows |-> RoundTripFirstHalf]

\* the values the environments here give a variable; "" with the variable
\* set is the empty string
EnvValues(name) ==
  IF name = "TELEGRAM_OWNER_ID" THEN {"", "abc", "1001", "-7"}
  ELSE IF name = "LLM_PROVIDER"
       THEN {"", "GEMINI", "gemini", "GIGACHAT", "DEEPSEEK", "OPENAI"}
       ELSE {"", "secret"}

\* marks a variable that is not set
Unset == "<unset>"

EnvChoices(name) == EnvValues(name) \cup {Unset}

\* the dict of the variables that are set
MakeEnv(token, owner, provider, gemini, gigachat, deepseek) ==
  LET all == [n \in EnvNames |->
                IF n = "TELEGRAM_BOT_TOKEN" THEN token
                ELSE IF n = "TELEGRAM_OWNER_ID" THEN owner
                ELSE IF n = "LLM_PROVIDER" THEN provider
                ELSE IF n = "GEMINI_API_KEY" THEN gemini
                ELSE IF n = "GIGACHAT_CREDENTIALS" THEN gigachat
                ELSE deepseek]
  IN  [n \in {m \in EnvNames : all[m] # Unset} |-> all[n]]

Envs ==
  {MakeEnv(t, o, p, g, gc, d) :
     t \in EnvChoices("TELEGRAM_BOT_TOKEN"), o \in EnvChoices("TELEGRAM_OWNER_ID"),
     p \in EnvChoices("LLM_PROVIDER"), g \in EnvChoices("GEMINI_API_KEY"),
     gc \in EnvChoices("GIGACHAT_CREDENTIALS"), d \in EnvChoices("DEEPSEEK_API_KEY")}

\* an environment that selects a provider and sets what it needs
EnvFor(provider) ==
  [n \in {"TELEGRAM_BOT_TOKEN", "TELEGRAM_OWNER_ID", "LLM_PROVIDER", CredentialOf(provider)} |->
     IF n = "TELEGRAM_OWNER_ID" THEN "1001"
     ELSE IF n = "LLM_PROVIDER" THEN provider
     ELSE "secret"]

\* nothing handed to the fence normalization
NotCleaned == <<Ch("?")>>

\* no Training generation yet
NotTrained == [english |-> None, delivered |-> 0, age |-> 0]

\* no update yet, nothing sent
InitSession ==
  /\ chat_data = EmptyDict
  /\ menus = 0
  /\ update = [handler |-> "none", user |-> OWNER_ID, arg |-> "",
               before |-> EmptyDict, gen |-> NoGen, follows |-> FALSE]
  /\ outbox = <<>>
  /\ log = <<>>
  /\ escaped = FALSE
  /\ llm_calls = 0
  /\ trained = NotTrained
  /\ queue = <<>>
  /\ tasks = <<>>

\* no other bot
NoTwins == [p \in {} |-> EmptyDict]

\* a bot before its first update
NewTwin == [chat_data |-> EmptyDict, outbox |-> <<>>]

\* what a bot configured with another backend keeps of a turn
Twin(r) == [chat_data |-> r.data, outbox |-> r.out]

\* the bot after a start with the provider DEEPSEEK configured
Init ==
  /\ env = EnvFor("DEEPSEEK")
  /\ boot = Startup(env)
  /\ InitSession
  /\ twins = NoTwins
  /\ reply_text = <<>>
  /\ cleaned_text = NotCleaned

\* the turn r was the owner's phrase in Training / AwaitingPhrase, the backend
\* returned an object with english and russian, and the Russian text was
\* delivered (lines 173-180)
TrainingGenerated(user, d, gen, r) ==
  /\ user = OWNER_ID
  /\ Dispatch(d) = "handle_phrase_and_return_russian"
  /\ r.calls > 0 /\ gen.returned /\ gen.text # None
  /\ LET data == JsonLoads(CleanedText(gen.text))
     IN  /\ data.ok /\ data.isobj
         /\ {"english", "russian"} \subseteq DOMAIN data.obj
         /\ Len(r.out) >= 2
         /\ r.out[2].ok /\ r.out[2].text = data.obj["russian"]

\* the turn r was the owner's message in Training / AwaitingReveal and the
\* stashed text was delivered (lines 193-196)
RevealDelivered(user, d, r) ==
  /\ user = OWNER_ID
  /\ Dispatch(d) = "handle_reveal_english"
  /\ Truthy(Get(d, "english_text", None))
  /\ r.out # <<>>
  /\ r.out[1].ok /\ r.out[1].text = Get(d, "english_text", None)

\* one more turn, counted up to 2
Later(n) == IF n < 2 THEN n + 1 ELSE n

\* the history of Training generations after a text message
TrainedAfterMessage(user, d, gen, r) ==
  IF TrainingGenerated(user, d, gen, r)
  THEN [english |-> JsonLoads(CleanedText(gen.text)).obj["english"],
        delivered |-> 0, age |-> 0]
  ELSE IF RevealDelivered(user, d, r)
       THEN [trained EXCEPT !.delivered = Later(@), !.age = Later(@)]
       ELSE [trained EXCEPT !.age = Later(@)]

\* the history of Training generations after any other update
TrainedAfterOther == [trained EXCEPT !.age = Later(@)]

\* the session and the turn's observations after a handler returned r
Apply(r) ==
  /\ boot.phase = "serving"
  /\ UNCHANGED <<env, boot, queue, tasks, reply_text, cleaned_text>>
  /\ chat_data' = r.data
  /\ outbox' = r.out
  /\ log' = r.log
  /\ escaped' = r.escaped
  /\ llm_calls' = r.calls

\* the platform answers the calls the turn makes and no other
Answered(r, net) == \A i \in (Len(r.out) + 1)..MaxApiCalls : net[i]

\* CommandHandler('start', start)
Start(user, net) ==
  /\ Apply(OwnerOnly(user, chat_data, StartBody(boot.LLM_PROVIDER, chat_data, net)))
  /\ update' = Update("start", user, "", chat_data, NoGen)
  /\ twins' = [p \in DOMAIN twins |->
                Twin(OwnerOnly(user, twins[p].chat_data,
                               StartBody(p, twins[p].chat_data, net)))]
  /\ trained' = TrainedAfterOther
  /\ UNCHANGED menus

\* CommandHandler('mode', mode_command): an accepted reply puts one more
\* menu with the three mode buttons into the chat
ModeCommand(user, net) ==
  /\ user = OWNER_ID => menus < MaxMenus
  /\ LET r == OwnerOnly(user, chat_data, ModeCommandBody(chat_data, net))
     IN  /\ Apply(r)
         /\ menus' = IF r.out # <<>> /\ r.out[1].ok THEN menus + 1 ELSE menus
  /\ update' = Update("mode_command", user, "", chat_data, NoGen)
  /\ twins' = [p \in DOMAIN twins |->
                Twin(OwnerOnly(user, twins[p].chat_data,
                               ModeCommandBody(twins[p].chat_data, net)))]
  /\ trained' = TrainedAfterOther

\* CallbackQueryHandler(button_callback): a user presses a button of an open
\* menu; the accepted edit replaces the menu, keyboard included
ButtonCallback(user, query_data, net) ==
  /\ menus > 0
  /\ LET r == ButtonCallbackBody(chat_data, query_data, net)
     IN  /\ Answered(r, net)
         /\ Apply(r)
         /\ menus' = IF Len(r.out) = 2 /\ r.out[2].ok THEN menus - 1 ELSE menus
  /\ update' = Update("button_callback", user, query_data, chat_data, NoGen)
  /\ twins' = [p \in DOMAIN twins |->
                Twin(ButtonCallbackBody(twins[p].chat_data, query_data, net))]
  /\ trained' = TrainedAfterOther

\* MessageHandler(filters.TEXT & (~filters.COMMAND), handle_message)
HandleMessage(user, phrase, gen, net, cantParse) ==
  LET r == OwnerOnly(user, chat_data,
                     HandleMessageBody(chat_data,
                                       GenerateLlmResponse(boot.LLM_PROVIDER, gen),
                                       net, cantParse))
  IN  /\ Answered(r, net)
      /\ twins' = [p \in DOMAIN twins |->
                    Twin(OwnerOnly(user, twins[p].chat_data,
                                   HandleMessageBody(twins[p].chat_data,
                                                     GenerateLlmResponse(p, gen),
                                                     net, cantParse)))]
      /\ Apply(r)
      /\ update' = Update("handle_message", user, phrase, chat_data,
                          IF r.calls > 0 THEN gen ELSE NoGen)
      /\ trained' = TrainedAfterMessage(user, chat_data, gen, r)
      /\ UNCHANGED menus

\* the inputs a text message consumes: the backend's answer if the handler
\* calls the backend, and the platform's answers to the handler's API calls
MessageCalls(user, d) ==
  LET h == Dispatch(d)
  IN  IF user # OWNER_ID \/ h = "none" THEN 0
      ELSE IF h = "handle_reveal_english" THEN 2
      ELSE IF h = "handle_explain_mode" THEN 5
      ELSE 4

MessageGens(user, d) ==
  IF user # OWNER_ID \/ Dispatch(d) \in {"none", "handle_reveal_english"}
  THEN {NoGen}
  ELSE IF Dispatch(d) = "handle_phrase_and_return_russian"
       THEN Gens
       ELSE TextGens

MessageRejections(user, d, net) ==
  IF user = OWNER_ID /\ Dispatch(d) = "handle_explain_mode" /\ ~net[2]
  THEN BOOLEAN
  ELSE {FALSE}

Next ==
  \/ \E user \in Users :
       \E net \in Nets(IF user = OWNER_ID THEN 1 ELSE 0) : Start(user, net)
  \/ \E user \in Users :
       \E net \in Nets(IF user = OWNER_ID THEN 1 ELSE 0) : ModeCommand(user, net)
  \/ \E user \in Users, m \in Modes, net \in Nets(2) : ButtonCallback(user, m, net)
  \/ \E user \in Users, phrase \in Phrases :
       \E gen \in MessageGens(user, chat_data),
          net \in Nets(MessageCalls(user, chat_data)) :
         \E cantParse \in MessageRejections(user, chat_data, net) :
           HandleMessage(user, phrase, gen, net, cantParse)

Spec == Init /\ [][Next]_vars

----------------------------------------------------------------------------
(* The same updates, backend answers and platform answers given to bots    *)
(* that differ in the configured backend                                   *)

InitProviders ==
  /\ env = EnvFor("DEEPSEEK")
  /\ boot = Startup(env)
  /\ InitSession
  /\ twins = [p \in Providers \ {boot.LLM_PROVIDER} |-> NewTwin]
  /\ reply_text = <<>>
  /\ cleaned_text = NotCleaned

SpecProviders == InitProviders /\ [][Next]_vars

----------------------------------------------------------------------------
(* Turns step by step: the owner's text messages in Training mode are      *)
(* queued by the updater, and a handler coroutine runs from one await to   *)
(* the next in one step.                                                   *)

\* the backend's answers here: it raises, or returns a reply with one of two
\* English texts, or a text that is not JSON
TurnGens ==
  {Raised, Returned(PlainText),
   Returned(<<Obj(JsonObject(AllKeys, RussianText, EnglishText1))>>),
   Returned(<<Obj(JsonObject(AllKeys, RussianText, EnglishText2))>>)}

ActiveTasks == {i \in 1..Len(tasks) : tasks[i].pc # "done"}

\* an application built with concurrent_updates(True)
IdleAlways == TRUE

\* ApplicationBuilder() without concurrent_updates, handlers added without
\* block=False: the application awaits the handler of an update before it
\* takes the next update from the queue
Idle == ActiveTasks = {}

\* the updater puts a text message of the owner into the queue
Receive ==
  /\ boot.phase = "serving"
  /\ Len(queue) + Len(tasks) < MaxUpdates
  /\ queue' = Append(queue, Len(queue) + Len(tasks) + 1)
  /\ UNCHANGED <<env, boot, chat_data, menus, update, outbox, log, escaped,
                 llm_calls, trained, twins, tasks, reply_text, cleaned_text>>

\* a coroutine of handle_message up to its first await (lines 147-159, 173
\* and 193-199): d is the session it finds
Begin(id, d) ==
  LET h            == Dispatch(d)
      english_text == Get(d, "english_text", None)
      d1           == Put(d, "state", STATE_AWAITING_PHRASE)
      t            == [id |-> id, handler |-> h, pc |-> "done", english |-> None,
                       stashed |-> None, overwrote |-> FALSE, seen |-> d]
  IN  IF h = "handle_phrase_and_return_russian"
      THEN [data |-> d, task |-> [t EXCEPT !.pc = "typing"]]
      ELSE IF h = "handle_reveal_english"
      THEN IF Truthy(english_text)
           THEN [data |-> d,
                 task |-> [t EXCEPT !.pc = "send_english", !.english = english_text]]
           ELSE [data |-> d1, task |-> [t EXCEPT !.pc = "send_restart", !.seen = d1]]
      ELSE [data |-> d, task |-> t]

\* the application takes the next update and starts its handler
ProcessUpdate ==
  /\ Idle
  /\ queue # <<>>
  /\ LET b == Begin(Head(queue), chat_data)
     IN  /\ chat_data' = b.data
         /\ tasks' = Append(tasks, b.task)
  /\ queue' = Tail(queue)
  /\ UNCHANGED <<env, boot, menus, update, outbox, log, escaped, llm_calls,
                 trained, twins, reply_text, cleaned_text>>

\* another coroutine that stashed its English text is still running
StashInFlight(i) ==
  \E k \in ActiveTasks : k # i /\ tasks[k].stashed # None

\* the coroutine t resumes from its await with the session d and runs to
\* its next await or to its end; ok is the platform's answer, gen the
\* backend's, over whether it overwrites the stash of a running coroutine
Continue(t, d, ok, gen, over) ==
  LET data   == IF gen.returned THEN JsonLoads(CleanedText(gen.text))
                ELSE [ok |-> FALSE, isobj |-> FALSE, obj |-> <<>>]
      failed == [data |-> Clear(d), task |-> [t EXCEPT !.pc = "send_error"]]
      ended  == [data |-> d, task |-> [t EXCEPT !.pc = "done"]]
  IN  IF t.pc = "typing"
      THEN IF ok THEN [data |-> d, task |-> [t EXCEPT !.pc = "generate"]] ELSE failed
      ELSE IF t.pc = "generate"
      THEN IF data.ok /\ data.isobj /\ "english" \in DOMAIN data.obj
           THEN IF "russian" \in DOMAIN data.obj
                THEN [data |-> Put(d, "english_text", data.obj["english"]),
                      task |-> [t EXCEPT !.pc = "send_russian",
                                         !.stashed = data.obj["english"],
                                         !.overwrote = over]]
                ELSE failed
           ELSE failed
      ELSE IF t.pc = "send_russian"
      THEN IF ok
           THEN [data |-> Put(d, "state", STATE_AWAITING_REVEAL),
                 task |-> [t EXCEPT !.pc = "send_prompt"]]
           ELSE failed
      ELSE IF t.pc = "send_prompt"
      THEN IF ok THEN ended ELSE failed
      ELSE IF t.pc = "send_english"
      THEN IF ok
           THEN [data |-> Put(d, "state", STATE_AWAITING_PHRASE),
                 task |-> [t EXCEPT !.pc = "send_restart"]]
           ELSE ended
      ELSE ended

\* the event loop resumes a suspended coroutine
Resume(i, ok, gen) ==
  /\ i \in ActiveTasks
  /\ gen.called <=> tasks[i].pc = "generate"
  /\ tasks[i].pc = "generate" => ok
  /\ LET c == Continue(tasks[i], chat_data, ok, gen, StashInFlight(i))
     IN  /\ chat_data' = c.data
         /\ tasks' = [tasks EXCEPT ![i] = [c.task EXCEPT !.seen = c.data]]
  /\ UNCHANGED <<env, boot, menus, update, outbox, log, escaped, llm_calls,
                 trained, twins, queue, reply_text, cleaned_text>>

NextTurns ==
  \/ Receive
  \/ ProcessUpdate
  \/ \E i \in 1..MaxUpdates, ok \in BOOLEAN, gen \in TurnGens \cup {NoGen} :
       Resume(i, ok, gen)

SpecTurns == Init /\ [][NextTurns]_vars

----------------------------------------------------------------------------
(* Startup on its own: the process is started in some environment *)

InitStartup ==
  /\ env \in Envs
  /\ boot = [phase |-> "loading", LLM_PROVIDER |-> "", handlers |-> {}]
  /\ InitSession
  /\ twins = NoTwins
  /\ reply_text = <<>>
  /\ cleaned_text = NotCleaned

\* the module is loaded and, if no ValueError is raised, __main__ registers
\* the handlers
Boot ==
  /\ boot.phase = "loading"
  /\ boot' = Startup(env)
  /\ UNCHANGED <<env, chat_data, menus, update, outbox, log, escaped, llm_calls,
                 trained, twins, queue, tasks, reply_text, cleaned_text>>

NextStartup == Boot

SpecStartup == InitStartup /\ [][NextStartup]_vars

----------------------------------------------------------------------------
(* The fence normalization on its own.  Here the text of a JSON object is  *)
(* spelled out in characters, so that a strip can cut into it.             *)

\* the longest inside of an object text
MaxInner == 2

InnerChars == {Ch(Backtick), Ch("n"), Ch(" ")}

RECURSIVE Strings(_, _)
\* the strings over an alphabet of at most n characters
Strings(alphabet, n) ==
  IF n = 0 THEN {<<>>}
  ELSE LET shorter == Strings(alphabet, n - 1)
       IN  shorter \cup {Append(t, c) : t \in shorter, c \in alphabet}

ObjectTexts == {<<Ch("{")>> \o t \o <<Ch("}")>> : t \in Strings(InnerChars, MaxInner)}

OptionalWhitespace == {<<>>, <<Ch(" ")>>, <<Ch("\n")>>}

OpeningFences == {<<>>, Fence, Fence \o <<Ch("j"), Ch("s"), Ch("o"), Ch("n")>>}

ClosingFences == {<<>>, Fence}

\* a JSON object, optionally in a fence, optionally surrounded by whitespace
FencedReplies ==
  {w1 \o f1 \o w2 \o o \o w3 \o f2 \o w4 :
     w1 \in OptionalWhitespace, f1 \in OpeningFences, w2 \in OptionalWhitespace,
     o \in ObjectTexts,
     w3 \in OptionalWhitespace, f2 \in ClosingFences, w4 \in OptionalWhitespace}

InitClean ==
  /\ env = EnvFor("DEEPSEEK")
  /\ boot = Startup(env)
  /\ InitSession
  /\ twins = NoTwins
  /\ reply_text \in FencedReplies
  /\ cleaned_text = NotCleaned

\* line 176 of handle_phrase_and_return_russian
Clean ==
  /\ cleaned_text = NotCleaned
  /\ cleaned_text' = CleanedText(reply_text)
  /\ UNCHANGED <<env, boot, chat_data, menus, update, outbox, log, escaped,
                 llm_calls, trained, twins, queue, tasks, reply_text>>

NextClean == Clean

SpecClean == InitClean /\ [][NextClean]_vars

TypeOK ==
  /\ DOMAIN chat_data \subseteq {"mode", "state", "english_text"}
  /\ menus \in 0..MaxMenus
  /\ llm_calls \in 0..1
----------------------------------------------------------------------------
(* Access control *)

\* C1: a mode-button press by a user other than the owner is dropped: no
\* reply, no message edit, and the session (mode, state, stashed English
\* text) is as it was.
C1_StrangerButtonDropped ==
  StrangerTurn("button_callback") =>
    /\ SentTexts = {}
    /\ chat_data = update.before

\* C2: a text message, /start or /mode from a user other than the owner
\* produces no outbound call, no backend call, and leaves the session as it
\* was.
C2_StrangerMessageDropped ==
  (update.user # OWNER_ID
     /\ update.handler \in {"start", "mode_command", "handle_message"}) =>
    /\ outbox = <<>>
    /\ llm_calls = 0
    /\ chat_data = update.before

\* a stranger's message arrives while a reveal is pending, and nothing moves
C2_Witness ==
  /\ StrangerTurn("handle_message")
  /\ StateBefore = STATE_AWAITING_REVEAL
  /\ State = STATE_AWAITING_REVEAL
  /\ outbox = <<>>

----------------------------------------------------------------------------
(* Session invariants and mode selection *)

\* C3: in every reachable state, state == AwaitingReveal implies that a
\* non-empty English text is stashed in the session.
C3_RevealHasStash == State = STATE_AWAITING_REVEAL => Truthy(Stash)

\* C4: a mode selection whose callback query the platform acknowledges sets
\* the mode to the selected one and leaves state == AwaitingPhrase, from any
\* session state and for any of the three modes.
C4_SelectionSetsModeAndState ==
  (update.handler = "button_callback" /\ outbox[1].ok) =>
    /\ "mode" \in DOMAIN chat_data
    /\ chat_data["mode"] = update.arg
    /\ "state" \in DOMAIN chat_data
    /\ chat_data["state"] = STATE_AWAITING_PHRASE

\* the owner re-selects Training while a reveal is pending
C4_Witness ==
  /\ OwnerTurn("button_callback")
  /\ outbox[1].ok
  /\ ModeBefore = MODE_TRAINING
  /\ StateBefore = STATE_AWAITING_REVEAL
  /\ update.arg = MODE_TRAINING
  /\ State = STATE_AWAITING_PHRASE

\* C5: after a mode selection, from any session state, the session holds no
\* stashed English text.
C5_SelectionClearsStash ==
  (update.handler = "button_callback" /\ outbox[1].ok) => Stash = None

----------------------------------------------------------------------------
(* Training round trip *)

\* C6: (first half) the bot sends R, does not send E, and moves to
\* AwaitingReveal holding E; (second half) the owner's next message, the
\* platform accepting the calls, makes the bot send E (the text it holds)
\* and nothing else but the restart prompt, without a backend call, and
\* return to AwaitingPhrase.
C6_RoundTrip ==
  /\ RoundTripFirstHalf =>
       /\ ReplyData.obj["russian"] \in SentTexts
       /\ ReplyData.obj["english"] \notin SentTexts
       /\ State = STATE_AWAITING_REVEAL
       /\ Stash = ReplyData.obj["english"]
  /\ (update.follows /\ OwnerTurn("handle_message") /\ AllCallsAccepted) =>
       /\ StashBefore \in SentTexts
       /\ SentTexts \subseteq {StashBefore, MsgStartOver}
       /\ llm_calls = 0
       /\ State = STATE_AWAITING_PHRASE

----------------------------------------------------------------------------
(* Failures *)

\* the backend's text of this turn is not a JSON object with english and
\* russian
Malformed ==
  \/ ~ReplyData.ok
  \/ ~ReplyData.isobj
  \/ ~({"english", "russian"} \subseteq DOMAIN ReplyData.obj)

\* C7: in Training mode a malformed backend reply leaves the session reset
\* to defaults with nothing stashed, and the last thing the bot does is to
\* send the generic error message.
C7_MalformedReplyResets ==
  (OwnerTurn("handle_message") /\ ModeBefore = MODE_TRAINING
     /\ update.gen.returned /\ Malformed) =>
    /\ chat_data = EmptyDict
    /\ IsDefaults(chat_data)
    /\ LastCall.api = "send_message"
    /\ LastCall.text = MsgErrorStartOver
    /\ "error" \in {log[i] : i \in 1..Len(log)}

\* a reply that has english but lacks russian arrives while an older text is
\* stashed: the new text was stashed, then dropped with the rest
C7_Witness ==
  /\ OwnerTurn("handle_message")
  /\ ModeBefore = MODE_TRAINING
  /\ update.gen.returned
  /\ ReplyData.ok /\ ReplyData.isobj
  /\ "english" \in DOMAIN ReplyData.obj
  /\ "russian" \notin DOMAIN ReplyData.obj
  /\ Truthy(StashBefore)
  /\ chat_data = EmptyDict

\* the backend call of the owner's turn raised
GenerationRaised ==
  /\ OwnerTurn("handle_message")
  /\ update.gen.called
  /\ ~update.gen.returned

\* the turn logged the error and its last call sends a generic error message
FailureReported ==
  /\ log = <<"error">>
  /\ LastCall.api = "send_message"
  /\ LastCall.text \in ErrorMessages
  /\ escaped = ~LastCall.ok

C9_TextModesKeepSession ==
  (OwnerTurn("handle_message") /\ ModeBefore \in {MODE_ENGLISH_ONLY, MODE_EXPLAIN}) =>
    /\ chat_data = update.before
    /\ Mode = ModeBefore
    /\ State = STATE_AWAITING_PHRASE

\* an EnglishOnly generation succeeds while a text from Training is stashed
C9_Witness ==
  /\ OwnerTurn("handle_message")
  /\ ModeBefore = MODE_ENGLISH_ONLY
  /\ update.gen.returned
  /\ AllCallsAccepted
  /\ Len(outbox) = 3
  /\ Truthy(Stash)

\* the MarkdownV2 send of an Explain turn was rejected
MarkdownRejected ==
  /\ OwnerTurn("handle_message")
  /\ Len(outbox) >= 2
  /\ outbox[2].md
  /\ ~outbox[2].ok

\* C10: when the platform rejects the MarkdownV2 send as unparseable, the
\* next call resends the same backend text as plain text; once that is
\* accepted the follow-up prompt is sent, and once that is accepted the turn
\* ends with no error logged and no error message; the session is as it
\* was.  A rejection for any other reason is logged as an error and answered
\* with the generic error message.
C10_MarkdownFallback ==
  MarkdownRejected =>
    /\ chat_data = update.before
    /\ outbox[2].text = update.gen.text
    /\ outbox[2].err = "cant_parse" =>
         /\ Len(outbox) >= 3
         /\ outbox[3].api = "send_message"
         /\ outbox[3].text = update.gen.text
         /\ ~outbox[3].md
         /\ outbox[3].ok =>
              /\ Len(outbox) >= 4
              /\ outbox[4].text = MsgAnotherExplain
              /\ outbox[4].ok =>
                   /\ Len(outbox) = 4
                   /\ log = <<"warning">>
                   /\ ~escaped
    /\ outbox[2].err # "cant_parse" =>
         /\ Len(outbox) = 3
         /\ outbox[3].text = MsgErrorTryAgain
         /\ log = <<"error">>

\* the plain resend and the follow-up prompt went through
C10_Witness ==
  /\ MarkdownRejected
  /\ outbox[2].err = "cant_parse"
  /\ Len(outbox) = 4
  /\ outbox[3].ok
  /\ outbox[4].ok
  /\ outbox[4].text = MsgAnotherExplain

----------------------------------------------------------------------------
(* Restart, escaping exceptions, reachable mode/state pairs, silent turns *)

\* C11: /start from the owner, in any session state and mode, leaves exactly
\* the defaults: mode Training, state AwaitingPhrase, nothing stashed; a
\* mode selected before is not kept.
C11_StartResets ==
  OwnerTurn("start") =>
    /\ DOMAIN chat_data = {"mode", "state"}
    /\ chat_data["mode"] = MODE_TRAINING
    /\ chat_data["state"] = STATE_AWAITING_PHRASE
    /\ Stash = None

\* /start arrives in Explain mode while a text from Training is stashed
C11_Witness ==
  /\ OwnerTurn("start")
  /\ ModeBefore = MODE_EXPLAIN
  /\ Truthy(StashBefore)
  /\ Mode = MODE_TRAINING

\* a call of the turn was rejected by the platform
SomeCallRejected == \E i \in 1..Len(outbox) : ~outbox[i].ok

\* C13: in a turn that a handler runs, no exception leaves the handler, and
\* when a call outside the generation step is rejected the handler answers
\* with a generic error message.
C13_NoExceptionEscapes ==
  (update.handler # "none" /\ (update.user = OWNER_ID \/ update.handler = "button_callback")) =>
    /\ ~escaped
    /\ SomeCallRejected => LastCall.text \in ErrorMessages

\* C17: in every reachable state, state == AwaitingReveal implies
\* mode == Training.
C17_RevealOnlyInTraining == State = STATE_AWAITING_REVEAL => Mode = MODE_TRAINING

\* a reveal is pending in a session whose mode was set by a button press
C17_Witness ==
  /\ OwnerTurn("handle_message")
  /\ "mode" \in DOMAIN chat_data
  /\ State = STATE_AWAITING_REVEAL
  /\ Mode = MODE_TRAINING

\* C19: a text message from the owner makes the handler attempt at least
\* one outbound message, in every session state, the absent session included.
C19_NoSilentTurn ==
  OwnerTurn("handle_message") =>
    \E i \in 1..Len(outbox) : outbox[i].api = "send_message"

\* the owner's very first message, no session yet
C19_Witness ==
  /\ OwnerTurn("handle_message")
  /\ update.before = EmptyDict
  /\ \E i \in 1..Len(outbox) : outbox[i].api = "send_message" /\ outbox[i].ok

----------------------------------------------------------------------------
(* Startup and fence normalization *)

\* the variable is set to a non-empty string
Present(name) == name \in DOMAIN env /\ env[name] # ""

\* the name of the selected backend: LLM_PROVIDER in upper case, DEEPSEEK
\* when the variable is unset
SelectedName ==
  IF "LLM_PROVIDER" \notin DOMAIN env THEN "DEEPSEEK"
  ELSE IF env["LLM_PROVIDER"] = "gemini" THEN "GEMINI"
  ELSE env["LLM_PROVIDER"]

\* C15: startup ends serving exactly when the owner identifier is present
\* and numeric, the bot credential is present, the selected backend is one
\* of the three and its own credential is present; every other environment
\* ends in a configuration error with no handler registered.
C15_StartupFailsFast ==
  boot.phase # "loading" =>
    /\ boot.phase \in {"serving", "config_error"}
    /\ boot.phase = "serving" <=>
         /\ Present("TELEGRAM_OWNER_ID")
         /\ env["TELEGRAM_OWNER_ID"] \in {"1001", "-7"}
         /\ Present("TELEGRAM_BOT_TOKEN")
         /\ SelectedName \in {"GEMINI", "GIGACHAT", "DEEPSEEK"}
         /\ SelectedName = "GEMINI" => Present("GEMINI_API_KEY")
         /\ SelectedName = "GIGACHAT" => Present("GIGACHAT_CREDENTIALS")
         /\ SelectedName = "DEEPSEEK" => Present("DEEPSEEK_API_KEY")
    /\ boot.phase = "config_error" => boot.handlers = {}
    /\ boot.phase = "serving" =>
         boot.handlers = {"start", "mode_command", "button_callback", "handle_message"}

\* GEMINI is selected in lower case and the other two credentials are unset
C15_Witness ==
  /\ boot.phase = "serving"
  /\ "LLM_PROVIDER" \in DOMAIN env
  /\ env["LLM_PROVIDER"] = "gemini"
  /\ "DEEPSEEK_API_KEY" \notin DOMAIN env
  /\ "GIGACHAT_CREDENTIALS" \notin DOMAIN env

\* the object text inside a reply: from its first '{' to its last '}'
ObjectOf(s) ==
  LET first == CHOOSE i \in 1..Len(s) : s[i] = Ch("{") /\ \A j \in 1..(i - 1) : s[j] # Ch("{")
      last  == CHOOSE i \in 1..Len(s) : s[i] = Ch("}") /\ \A j \in (i + 1)..Len(s) : s[j] # Ch("}")
  IN  SubSeq(s, first, last)

\* C16: a reply that is a JSON object, optionally surrounded by whitespace,
\* by an opening fence (with or without "json") and by a closing fence, is
\* normalized to exactly the text of the object.
C16_FenceNormalization ==
  cleaned_text # NotCleaned => cleaned_text = ObjectOf(reply_text)

\* an object whose text begins and ends with characters the strips remove,
\* in a json fence with whitespace around
C16_Witness ==
  /\ cleaned_text = <<Ch("{"), Ch("n"), Ch(Backtick), Ch("}")>>
  /\ Len(reply_text) >= Len(cleaned_text) + 12

----------------------------------------------------------------------------
(* Reveal *)

\* this turn was the reveal step and the platform delivered the stashed text
RevealSentEnglish ==
  /\ OwnerTurn("handle_message")
  /\ ModeBefore = MODE_TRAINING
  /\ StateBefore = STATE_AWAITING_REVEAL
  /\ Truthy(StashBefore)
  /\ outbox # <<>>
  /\ outbox[1].ok /\ outbox[1].text = StashBefore

\* C18 as stated: an English text delivered by the reveal step is the
\* english value of the most recent Training generation, the Russian half of
\* that generation was sent in the turn immediately before the reveal, and
\* the text is delivered no second time.
C18_RevealFollowsGeneration ==
  RevealSentEnglish =>
    /\ trained.english = StashBefore
    /\ trained.age = 1
    /\ trained.delivered = 1

\* C18, amended: an English text delivered by the reveal step is the english
\* value of the most recent Training generation whose Russian half was
\* sent, whatever updates came between the two, and no generation's English
\* text is delivered by the reveal step a second time.
C18_NoStaleReveal ==
  /\ trained.delivered <= 1
  /\ RevealSentEnglish =>
       /\ trained.english = StashBefore
       /\ trained.delivered = 1

\* a reveal that did not directly follow its generation
C18_Witness ==
  /\ RevealSentEnglish
  /\ trained.age = 2
  /\ trained.english = EnglishText1

----------------------------------------------------------------------------
(* Provider independence *)

\* C12 as stated: after every turn the bots configured with the other
\* backends hold the same session and have made the same API calls with the
\* same texts, the reply to /start included.
C12_ProviderIndependence ==
  \A p \in DOMAIN twins :
    /\ twins[p].chat_data = chat_data
    /\ twins[p].outbox = outbox

\* the calls with their texts left out
Shape(out) == [i \in 1..Len(out) |-> [out[i] EXCEPT !.text = NoText]]

\* C12, amended: after every turn the bots configured with the other
\* backends hold the same session and have made the same API calls with the
\* same outcome; the texts are the same too, except that the welcome message
\* sent in reply to the owner's /start names the configured backend.
C12_IndependentButWelcome ==
  \A p \in DOMAIN twins :
    /\ twins[p].chat_data = chat_data
    /\ Shape(twins[p].outbox) = Shape(outbox)
    /\ IF OwnerTurn("start")
       THEN /\ outbox[1].text = MsgWelcome(boot.LLM_PROVIDER, Mode)
            /\ twins[p].outbox[1].text = MsgWelcome(p, Mode)
       ELSE twins[p].outbox = outbox

\* a Training generation answered alike by three bots
C12_Witness ==
  /\ DOMAIN twins = {"GEMINI", "GIGACHAT"}
  /\ OwnerTurn("handle_message")
  /\ llm_calls = 1
  /\ State = STATE_AWAITING_REVEAL
  /\ \A p \in DOMAIN twins : EnglishText1 \notin {twins[p].outbox[i].text : i \in 1..Len(outbox)}
  /\ \A p \in DOMAIN twins : twins[p].chat_data["english_text"] = EnglishText1

----------------------------------------------------------------------------
(* Serialized turns *)

\* C14: at most one handler coroutine of the chat is running or suspended at
\* a time, so a suspended handler finds the session as it left it, and no
\* Training phrase stashes its English text over the stash of a phrase whose
\* handler has not returned.
C14_TurnsSerialized ==
  /\ Cardinality(ActiveTasks) <= 1
  /\ \A i \in ActiveTasks : tasks[i].seen = chat_data
  /\ \A i \in 1..Len(tasks) : ~tasks[i].overwrote

\* a second message waits in the queue while the handler of a phrase, its
\* English text stashed, is suspended at the send of the Russian text
C14_Witness ==
  /\ queue # <<>>
  /\ Len(tasks) = 1
  /\ tasks[1].pc = "send_russian"
  /\ tasks[1].stashed = EnglishText1
  /\ Stash = EnglishText1

====
